---------------------------- MODULE Spec2Model ----------------------------
(***************************************************************************)
(* A model of pyrigi.framework.Framework (src/pyrigi/framework.py): a      *)
(* graph together with a realization of its vertices, the operations that  *)
(* mutate it and the rigidity queries.                                     *)
(*                                                                         *)
(* A framework object is a record                                          *)
(*   nodes : the graph's vertices in insertion order (networkx keeps one), *)
(*   edges : the graph's edges, each a two-element set of vertices,        *)
(*   real  : the dict self._realization, a function from its keys to       *)
(*           coordinate vectors,                                           *)
(*   dim   : self._dim.                                                    *)
(* A coordinate vector is a record [c, mat]: c the tuple of coordinates,   *)
(* mat = TRUE for a sympy Matrix the framework built itself with           *)
(* Matrix(point), mat = FALSE for a caller's list (pyrigi.data_type.Point  *)
(* is List[Coordinate]) stored as it came, by reference.                   *)
(*                                                                         *)
(* Vertex identifiers are integers, so sorted() never raises the TypeError *)
(* rigidity_matrix catches; edges join two different vertices; a framework *)
(* has dimension 1 or 2.  delete_edges, the drawing and printing methods   *)
(* and the methods that raise NotImplementedError are left out.            *)
(***************************************************************************)
EXTENDS Integers, Sequences, FiniteSets, TLC

VARIABLES
    fw,          \* the framework object
    mapAliased,  \* TRUE when self._realization is a dict the caller still holds
    calls,       \* the number of state-changing calls made since construction
    last         \* the last call: its name, arguments and outcome

vars == <<fw, mapAliased, calls, last>>

(***************************************************************************)
(* Bounds of the model.                                                    *)
(***************************************************************************)
MaxLabel == 2      \* vertex identifiers are 0..MaxLabel
MaxCoord == 1      \* coordinates are 0..MaxCoord
MaxBatch == 2      \* longest list handed to a batch operation
MaxCalls == 2      \* state-changing calls in one run of Spec

Labels == 0..MaxLabel
Coords == 0..MaxCoord
Dims   == {1, 2}   \* dimensions of the frameworks constructed
Lens   == {1, 2}   \* lengths of the coordinate lists a caller supplies

\* The coordinate tuples of length n.
Tuples(n) == [1..n -> Coords]
AllTuples == UNION {Tuples(n) : n \in Lens}

\* A caller's point: a python list of coordinates.
ListPoint(t) == [c |-> t, mat |-> FALSE]
CallerPoints == {ListPoint(t) : t \in AllTuples}

(***************************************************************************)
(* Python and sympy helpers.                                               *)
(***************************************************************************)
\* sympy.Matrix(point): a new column matrix with the point's entries.
Matrix(point) == [c |-> point.c, mat |-> TRUE]

\* len(point)
len(point) == Len(point.c)

Min(S) == CHOOSE x \in S : \A y \in S : x <= y

\* sorted(S) for a set of integers.
RECURSIVE sorted(_)
sorted(S) == IF S = {} THEN <<>> ELSE <<Min(S)>> \o sorted(S \ {Min(S)})

Range(s) == {s[i] : i \in 1..Len(s)}

\* The sequences without repetition over the set S.
RECURSIVE Perms(_)
Perms(S) ==
    IF S = {} THEN {<<>>}
    ELSE UNION {{<<x>> \o p : p \in Perms(S \ {x})} : x \in S}

IndexOf(s, x) == CHOOSE i \in 1..Len(s) : s[i] = x

SeqRemove(s, x) == SelectSeq(s, LAMBDA y : y # x)


(***************************************************************************)
(* The graph collaborator, pyrigi.graph.Graph, a networkx.Graph.  Its      *)
(* source is not among the files; it is modelled from its contract:        *)
(* vertex and edge enumeration, addition and deletion.                     *)
(***************************************************************************)
\* self._graph.vertices() / .nodes, as a set
vertices(F) == Range(F.nodes)

Pos(F, v) == IndexOf(F.nodes, v)

\* An edge as networkx reports it: the endpoint inserted first comes first.
Orient(F, e) ==
    LET u == CHOOSE x \in e : \A y \in e : Pos(F, x) <= Pos(F, y)
        v == CHOOSE y \in e : y # u
    IN  <<u, v>>

PairLess(a, b) == a[1] < b[1] \/ (a[1] = b[1] /\ a[2] < b[2])

\* sorted(pairs): the pairs in lexicographic order
RECURSIVE sortedPairs(_)
sortedPairs(S) ==
    IF S = {} THEN <<>>
    ELSE LET m == CHOOSE a \in S : \A b \in S : a = b \/ PairLess(a, b)
         IN  <<m>> \o sortedPairs(S \ {m})

\* self._graph.edges(): the edges in the graph's own iteration order, node by
\* node in insertion order
RECURSIVE nativePairs(_, _)
nativePairs(F, S) ==
    IF S = {} THEN <<>>
    ELSE LET m == CHOOSE a \in S : \A b \in S :
                     \/ a = b
                     \/ Pos(F, a[1]) < Pos(F, b[1])
                     \/ (a[1] = b[1] /\ Pos(F, a[2]) < Pos(F, b[2]))
         IN  <<m>> \o nativePairs(F, S \ {m})

edges(F) == nativePairs(F, {Orient(F, e) : e \in F.edges})

\* Graph.add_node(vertex)
graph_add_node(F, vertex) ==
    IF vertex \in vertices(F) THEN F
    ELSE [F EXCEPT !.nodes = Append(@, vertex)]

\* Graph.add_edge(u, v): networkx adds the endpoints it does not know
graph_add_edge(F, u, v) ==
    LET G == graph_add_node(graph_add_node(F, u), v)
    IN  [G EXCEPT !.edges = @ \cup {{u, v}}]

\* Graph.delete_vertex(vertex): the vertex and its incident edges
graph_delete_vertex(F, vertex) ==
    IF vertex \notin vertices(F)
    THEN [fw |-> F, err |-> "NetworkXError"]
    ELSE [fw |-> [F EXCEPT !.nodes = SeqRemove(@, vertex),
                           !.edges = {e \in @ : vertex \notin e}],
          err |-> ""]

\* Graph.delete_edge(edge)
graph_delete_edge(F, edge) ==
    IF {edge[1], edge[2]} \notin F.edges
    THEN [fw |-> F, err |-> "NetworkXError"]
    ELSE [fw |-> [F EXCEPT !.edges = @ \ {{edge[1], edge[2]}}], err |-> ""]

(***************************************************************************)
(* Results of calls.  A call ends by returning a value or by raising:      *)
(* err is the exception's name ("" when the call returned), val the kind   *)
(* of value returned, m the matrix, n the integer returned, trials the     *)
(* number of edge-deletion trials a predicate made.                        *)
(***************************************************************************)
Raised(e)   == [err |-> e,  val |-> "",       m |-> <<>>, n |-> 0, trials |-> 0]
RetNone     == [err |-> "", val |-> "None",   m |-> <<>>, n |-> 0, trials |-> 0]
RetBool(b, k) ==
    [err |-> "", val |-> IF b THEN "True" ELSE "False", m |-> <<>>, n |-> 0,
     trials |-> k]
RetInt(i)   == [err |-> "", val |-> "int",    m |-> <<>>, n |-> i, trials |-> 0]
RetMatrix(M) == [err |-> "", val |-> "Matrix", m |-> M,   n |-> 0, trials |-> 0]
RetObject   == [err |-> "", val |-> "object", m |-> <<>>, n |-> 0, trials |-> 0]

(***************************************************************************)
(* Framework.rigidity_matrix                                               *)
(***************************************************************************)
delta(u, v, w) == IF w = u THEN 1 ELSE IF w = v THEN -1 ELSE 0

\* self._realization[u] - self._realization[v], both sympy matrices of one shape
Difference(F, u, v) ==
    [i \in 1..len(F.real[u]) |-> F.real[u].c[i] - F.real[v].c[i]]

Scale(k, t) == [i \in 1..Len(t) |-> k * t[i]]

RECURSIVE flatten(_)
flatten(blocks) ==
    IF blocks = <<>> THEN <<>> ELSE Head(blocks) \o flatten(Tail(blocks))

\* What evaluating self._realization[u] - self._realization[v] raises, if anything
DifferenceError(F, u, v) ==
    IF u \notin DOMAIN F.real \/ v \notin DOMAIN F.real THEN "KeyError"
    ELSE IF ~(F.real[u].mat /\ F.real[v].mat) THEN "TypeError"
    ELSE IF len(F.real[u]) # len(F.real[v]) THEN "ShapeError"
    ELSE ""

\* The row of edge (u, v): one block per vertex of the order
RowOf(F, e, vertex_order) ==
    flatten([k \in 1..Len(vertex_order) |->
                Scale(delta(e[1], e[2], vertex_order[k]),
                      Difference(F, e[1], e[2]))])

\* The first exception the rows raise, in the order they are built
RECURSIVE RowsError(_, _, _)
RowsError(F, edge_order, vertex_order) ==
    IF edge_order = <<>> \/ vertex_order = <<>> THEN ""
    ELSE LET e == DifferenceError(F, Head(edge_order)[1], Head(edge_order)[2])
         IN  IF e # "" THEN e
             ELSE RowsError(F, Tail(edge_order), vertex_order)

\* sympy.Matrix(rows): no rows give the 0 x 0 matrix, rows of different
\* lengths are refused
SympyMatrix(rows) ==
    IF \E i, j \in 1..Len(rows) : Len(rows[i]) # Len(rows[j])
    THEN Raised("ValueError")
    ELSE RetMatrix(rows)

RowCount(M) == Len(M)
ColCount(M) == IF M = <<>> THEN 0 ELSE Len(M[1])

\* vertex_order: given = FALSE stands for None
rigidity_matrix(F, given, order, edges_ordered) ==
    IF given /\ vertices(F) # Range(order) THEN Raised("AssertionError")
    ELSE
      LET vertex_order == IF given THEN order ELSE sorted(vertices(F))
          pairs        == {Orient(F, e) : e \in F.edges}
          edge_order   == IF edges_ordered THEN sortedPairs(pairs) ELSE edges(F)
          e            == RowsError(F, edge_order, vertex_order)
      IN  IF e # "" THEN Raised(e)
          ELSE SympyMatrix([k \in 1..Len(edge_order) |->
                               RowOf(F, edge_order[k], vertex_order)])

(***************************************************************************)
(* sympy's Matrix.rank() over exact arithmetic: fraction-free elimination, *)
(* column by column.                                                       *)
(***************************************************************************)
RECURSIVE RankFrom(_, _)
RankFrom(M, j) ==
    IF M = <<>> \/ j > Len(M[1]) THEN 0
    ELSE IF \A i \in 1..Len(M) : M[i][j] = 0 THEN RankFrom(M, j + 1)
    ELSE
      LET p    == CHOOSE i \in 1..Len(M) :
                     M[i][j] # 0 /\ \A k \in 1..(i - 1) : M[k][j] = 0
          rest == [i \in 1..(Len(M) - 1) |->
                     LET r == IF i < p THEN M[i] ELSE M[i + 1]
                     IN  [c \in 1..Len(r) |-> M[p][j] * r[c] - r[j] * M[p][c]]]
      IN  1 + RankFrom(rest, j + 1)

rank(M) == RankFrom(M, 1)

\* Framework.rigidity_matrix_rank
rigidity_matrix_rank(F) ==
    LET M == rigidity_matrix(F, FALSE, <<>>, TRUE)
    IN  IF M.err # "" THEN M ELSE RetInt(rank(M.m))

\* Framework.is_infinitesimally_rigid
is_infinitesimally_rigid(F) ==
    IF Cardinality(vertices(F)) <= 1 THEN RetBool(TRUE, 0)
    ELSE LET r == rigidity_matrix_rank(F)
         IN  IF r.err # "" THEN r
             ELSE RetBool(r.n = F.dim * Cardinality(vertices(F))
                                - (F.dim * (F.dim + 1)) \div 2, 0)

(***************************************************************************)
(* Edge-deletion trials.  A trial works on F = deepcopy(self): self keeps  *)
(* its edges, F loses the edge.  A trial yields both objects.              *)
(***************************************************************************)
\* copy.deepcopy(self): an object of its own with the same contents
deepcopy(F) == F

\* Framework.delete_edge
delete_edge(F, edge) == graph_delete_edge(F, edge)

\* A variant that deletes the edge from the framework itself: C13's formula
\* must tell it from EdgeDeletionTrial
EdgeDeletionTrialInPlace(self, edge) ==
    [self |-> delete_edge(self, edge).fw, F |-> delete_edge(self, edge).fw]

\* F = deepcopy(self); F.delete_edge(edge)
EdgeDeletionTrial(self, edge) ==
    [self |-> self, F |-> delete_edge(deepcopy(self), edge).fw]

\* Framework.is_minimally_infinitesimally_rigid: the loop over the edges left
\* to try, k trials made so far
RECURSIVE MinimallyLoop(_, _, _)
MinimallyLoop(self, todo, k) ==
    IF todo = <<>> THEN [self |-> self, res |-> RetBool(TRUE, k)]
    ELSE LET t == EdgeDeletionTrial(self, Head(todo))
             r == is_infinitesimally_rigid(t.F)
         IN  IF r.err # "" THEN [self |-> t.self, res |-> r]
             ELSE IF r.val = "True"
                  THEN [self |-> t.self, res |-> RetBool(FALSE, k + 1)]
                  ELSE MinimallyLoop(t.self, Tail(todo), k + 1)

\* A variant without the test of the framework itself: C10's formula must
\* tell it from is_minimally_infinitesimally_rigid
is_minimally_rigid_untested(self) == MinimallyLoop(self, edges(self), 0)

is_minimally_infinitesimally_rigid(self) ==
    LET r == is_infinitesimally_rigid(self)
    IN  IF r.err # "" THEN [self |-> self, res |-> r]
        ELSE IF r.val = "False" THEN [self |-> self, res |-> RetBool(FALSE, 0)]
        ELSE MinimallyLoop(self, edges(self), 0)

\* F.is_infinitesimally_rigid(F): the method takes no argument besides self,
\* so python refuses the call before the method runs
is_infinitesimally_rigid_with_argument(F, extra) == Raised("TypeError")

\* Framework.is_redundantly_rigid
RECURSIVE RedundantlyLoop(_, _, _)
RedundantlyLoop(self, todo, k) ==
    IF todo = <<>> THEN [self |-> self, res |-> RetBool(TRUE, k)]
    ELSE LET t == EdgeDeletionTrial(self, Head(todo))
             r == is_infinitesimally_rigid_with_argument(t.F, t.F)
         IN  IF r.err # "" THEN [self |-> t.self, res |-> r]
             ELSE IF r.val = "False"
                  THEN [self |-> t.self, res |-> RetBool(FALSE, k + 1)]
                  ELSE RedundantlyLoop(t.self, Tail(todo), k + 1)

is_redundantly_rigid(self) == RedundantlyLoop(self, edges(self), 0)

(***************************************************************************)
(* Mutations.  Each yields the framework after the call and the exception  *)
(* raised ("" when the call returned); a call that raises keeps what it    *)
(* had done before.                                                        *)
(***************************************************************************)
Ok(F)      == [fw |-> F, err |-> ""]
Fail(F, e) == [fw |-> F, err |-> e]

\* d[k] = x on a python dict
DictSet(d, k, x) == [j \in DOMAIN d \cup {k} |-> IF j = k THEN x ELSE d[j]]
\* del d[k]
DictDel(d, k) == [j \in DOMAIN d \ {k} |-> d[j]]

\* The name add_vertex chooses when none is given: from len(vertices) upwards,
\* the first integer that is no vertex
RECURSIVE FirstFreeFrom(_, _)
FirstFreeFrom(V, candidate) ==
    IF candidate \in V THEN FirstFreeFrom(V, candidate + 1) ELSE candidate

\* A variant that starts the search at 0 instead of len(vertices): C2's
\* formula must tell it from DefaultName
DefaultNameFromZero(F) == FirstFreeFrom(vertices(F), 0)

DefaultName(F) == FirstFreeFrom(vertices(F), Cardinality(vertices(F)))

\* Framework.add_vertex(point, vertex): named = FALSE stands for vertex = None
add_vertex(F, point, named, name) ==
    LET vertex == IF named THEN name ELSE DefaultName(F)
    IN  IF vertex \in vertices(F) THEN Fail(F, "AssertionError")
        ELSE Ok(graph_add_node([F EXCEPT !.real = DictSet(@, vertex, Matrix(point))],
                               vertex))

\* Framework.add_vertices: the loop over the points (and names) left
RECURSIVE AddVerticesLoop(_, _, _)
AddVerticesLoop(F, points, names) ==
    IF points = <<>> THEN Ok(F)
    ELSE LET r == IF names = <<>>
                  THEN add_vertex(F, Head(points), FALSE, 0)
                  ELSE add_vertex(F, Head(points), TRUE, Head(names))
         IN  IF r.err # "" THEN r
             ELSE AddVerticesLoop(r.fw, Tail(points),
                                  IF names = <<>> THEN <<>> ELSE Tail(names))

add_vertices(F, points, names) ==
    IF ~(Len(points) = Len(names) \/ names = <<>>) THEN Fail(F, "AssertionError")
    ELSE AddVerticesLoop(F, points, names)

\* A variant without the assertion on the endpoints: C4's formula must tell
\* it from add_edge
add_edge_unchecked(F, edge) == Ok(graph_add_edge(F, edge[1], edge[2]))

\* Framework.add_edge(edge), edge a pair
add_edge(F, edge) ==
    IF Len(edge) # 2 THEN Fail(F, "AssertionError")
    ELSE IF ~(edge[1] \in vertices(F) /\ edge[2] \in vertices(F))
    THEN Fail(F, "AssertionError")
    ELSE Ok(graph_add_edge(F, edge[1], edge[2]))

\* Framework.add_edges
RECURSIVE add_edges(_, _)
add_edges(F, es) ==
    IF es = <<>> THEN Ok(F)
    ELSE LET r == add_edge(F, Head(es))
         IN  IF r.err # "" THEN r ELSE add_edges(r.fw, Tail(es))

\* A variant that deletes the vertex from the graph only: C11's formula must
\* tell it from delete_vertex
delete_vertex_keeping_entry(F, vertex) == graph_delete_vertex(F, vertex)

\* Framework.delete_vertex
delete_vertex(F, vertex) ==
    LET g == graph_delete_vertex(F, vertex)
    IN  IF g.err # "" THEN g
        ELSE IF vertex \notin DOMAIN g.fw.real THEN Fail(g.fw, "KeyError")
        ELSE Ok([g.fw EXCEPT !.real = DictDel(@, vertex)])

\* Framework.delete_vertices
RECURSIVE delete_vertices(_, _)
delete_vertices(F, vs) ==
    IF vs = <<>> THEN Ok(F)
    ELSE LET r == delete_vertex(F, Head(vs))
         IN  IF r.err # "" THEN r ELSE delete_vertices(r.fw, Tail(vs))

\* Framework.set_realization: the caller's dict becomes self._realization
set_realization(F, realization) ==
    IF \E v \in vertices(F) : v \notin DOMAIN realization
          \/ len(realization[v]) # F.dim
    THEN Fail(F, "AssertionError")
    ELSE Ok([F EXCEPT !.real = realization])

\* Framework.change_vertex_coordinates: the caller's point is stored as it is
change_vertex_coordinates(F, vertex, point) ==
    IF vertex \notin DOMAIN F.real THEN Fail(F, "AssertionError")
    ELSE IF len(point) # F.dim THEN Fail(F, "AssertionError")
    ELSE Ok([F EXCEPT !.real = DictSet(@, vertex, point)])

\* list.sort() sorts in place and returns None
ListSort(l) == "None"

\* list(set(vertices)).sort() != list(vertices).sort()
DuplicatesFound(vs) == ListSort(sorted(Range(vs))) # ListSort(vs)

RECURSIVE ChangeLoop(_, _, _)
ChangeLoop(F, vs, points) ==
    IF vs = <<>> THEN Ok(F)
    ELSE LET r == change_vertex_coordinates(F, Head(vs), Head(points))
         IN  IF r.err # "" THEN r ELSE ChangeLoop(r.fw, Tail(vs), Tail(points))

\* Framework.change_vertex_coordinates_list (set_vertex_positions and
\* change_realization hand their arguments to it)
change_vertex_coordinates_list(F, vs, points) ==
    IF DuplicatesFound(vs) THEN Fail(F, "AttributeError")
    ELSE IF Len(vs) # Len(points) THEN Fail(F, "AssertionError")
    ELSE ChangeLoop(F, vs, points)

(***************************************************************************)
(* Framework.__init__(graph, realization, dim).  realization is a python   *)
(* dict: a function and the key that comes first in it.  Yields the object *)
(* constructed, or the exception.                                          *)
(***************************************************************************)
Framework(graph, realization, first, dim) ==
    LET dimension == IF DOMAIN realization = {} THEN dim
                     ELSE len(realization[first])
    IN  IF \E v \in Range(graph.nodes) :
              v \notin DOMAIN realization \/ len(realization[v]) # dimension
        THEN Fail(<<>>, "AssertionError")
        ELSE Ok([nodes |-> graph.nodes,
                 edges |-> graph.edges,
                 real  |-> [v \in Range(graph.nodes) |-> Matrix(realization[v])],
                 dim   |-> dimension])

(***************************************************************************)
(* Framework.trivial_infinitesimal_flexes and infinitesimal_flexes.  The   *)
(* flexes themselves (a basis of a null space) are not computed: a call    *)
(* that returns yields a list.                                             *)
(***************************************************************************)
\* networkx.complete_graph(n): the vertices 0..n-1, every pair an edge
complete_graph(n) ==
    [nodes |-> [i \in 1..n |-> i - 1],
     edges |-> {e \in SUBSET (0..(n - 1)) : Cardinality(e) = 2}]

\* Graph(K.edges): the graph built from a list of edges has the vertices the
\* edges mention, so none when there is no edge
GraphOfEdges(K) ==
    [nodes |-> SelectSeq(K.nodes, LAMBDA v : \E e \in K.edges : v \in e),
     edges |-> K.edges]

\* The framework trivial_infinitesimal_flexes constructs; first is the key
\* that comes first in the dict self.realization() returns
AuxiliaryFramework(self, first) ==
    Framework(GraphOfEdges(complete_graph(Cardinality(vertices(self)))),
              self.real, first, self.dim)

\* self.rigidity_matrix().nullspace()
Nullspace(F) ==
    LET M == rigidity_matrix(F, FALSE, <<>>, TRUE)
    IN  IF M.err # "" THEN M ELSE RetObject

\* Framework.trivial_infinitesimal_flexes
trivial_infinitesimal_flexes(self, first) ==
    LET F == AuxiliaryFramework(self, first)
    IN  IF F.err # "" THEN Raised(F.err) ELSE Nullspace(F.fw)

\* Framework.infinitesimal_flexes(include_trivial)
infinitesimal_flexes(self, include_trivial, first) ==
    IF include_trivial THEN Nullspace(self)
    ELSE LET trivial_flexes == trivial_infinitesimal_flexes(self, first)
             all_flexes     == Nullspace(self)
         IN  IF trivial_flexes.err # "" THEN trivial_flexes
             ELSE IF all_flexes.err # "" THEN all_flexes
             ELSE RetObject

(***************************************************************************)
(* Inputs.                                                                 *)
(***************************************************************************)
SeqsUpTo(S, n) == UNION {[1..k -> S] : k \in 0..n}

\* The two-element subsets of V
PairsOf(V) == {e \in SUBSET V : Cardinality(e) = 2}

\* The graphs a caller hands to the constructor
Graphs ==
    UNION {UNION {{[nodes |-> ns, edges |-> es] : es \in SUBSET PairsOf(V)}
                  : ns \in Perms(V)} : V \in SUBSET Labels}

\* The dicts of points a caller builds over the keys K
Realizations(K) == [K -> CallerPoints]

\* The points a caller hands to a state-changing call: one of each length
NewPoints == {ListPoint([i \in 1..n |-> MaxCoord]) : n \in Lens}

\* The dicts a caller hands to set_realization
NewRealizations == UNION {[K -> NewPoints] : K \in SUBSET Labels}

\* The pairs a caller hands to add_edge and delete_edge
EdgeArgs == {<<u, v>> \in Labels \X Labels : u # v}

\* The vertex orders a caller hands to rigidity_matrix: lists over the labels,
\* repetitions included
VertexOrders == SeqsUpTo(Labels, MaxLabel + 1)

(***************************************************************************)
(* The state machine: one action per call.                                 *)
(***************************************************************************)
Call(op, arg, given, ordered, res) ==
    [op |-> op, arg |-> arg, given |-> given, ordered |-> ordered, res |-> res]

\* The outcome of a mutation: None, or the exception
Outcome(r) == IF r.err = "" THEN RetNone ELSE Raised(r.err)

Queries ==
    {"rigidity_matrix", "rigidity_matrix_rank", "is_infinitesimally_rigid",
     "is_minimally_infinitesimally_rigid", "is_redundantly_rigid",
     "trivial_infinitesimal_flexes", "infinitesimal_flexes",
     "get_realization", "underlying_graph"}

\* The state after Framework(graph, realization, dim) returned
Constructed(graph, realization, first, dim) ==
    LET r == Framework(graph, realization, first, dim)
    IN  /\ r.err = ""
        /\ fw = r.fw
        /\ mapAliased = FALSE
        /\ calls = 0
        /\ last = Call("__init__", <<>>, FALSE, FALSE, RetObject)

\* Every framework the constructor builds from the inputs of the model
InitQueries ==
    \E graph \in Graphs, dim \in Dims :
      \E K \in {Range(graph.nodes)} \cup
               {Range(graph.nodes) \cup {x} : x \in Labels} :
        \E realization \in Realizations(K) :
          \E first \in IF K = {} THEN {0} ELSE K :
            Constructed(graph, realization, first, dim)

\* A placement of the labels in dimension d with no three points on a line:
\* the origin and the unit points
Placement(d) ==
    [v \in Labels |->
       ListPoint([i \in 1..d |-> IF v = i THEN MaxCoord ELSE 0])]

\* The frameworks Spec starts from: a graph whose vertices come in increasing
\* order, its vertices placed by Placement
Init ==
    \E graph \in Graphs, dim \in Dims :
      /\ graph.nodes = sorted(Range(graph.nodes))
      /\ Constructed(graph, [v \in Range(graph.nodes) |-> Placement(dim)[v]],
                     Min(Range(graph.nodes) \cup {MaxLabel}), dim)

\* A state-changing call: r is what the operation yields
Mutation(op, arg, given, r) ==
    /\ calls < MaxCalls
    /\ fw' = r.fw
    /\ calls' = calls + 1
    /\ last' = Call(op, arg, given, FALSE, Outcome(r))
    /\ UNCHANGED mapAliased

\* A vertex named by add_vertex itself stays within the labels of the model
InLabels(r) == vertices(r.fw) \subseteq Labels

AddVertex ==
    \E point \in NewPoints, named \in BOOLEAN, name \in Labels :
      LET r == add_vertex(fw, point, named, name)
      IN  /\ named \/ name = 0
          /\ InLabels(r)
          /\ Mutation("add_vertex", <<>>, named, r)

AddVertices ==
    \E points \in SeqsUpTo(NewPoints, MaxBatch),
       names \in SeqsUpTo(Labels, MaxBatch) :
      LET r == add_vertices(fw, points, names)
      IN  /\ InLabels(r)
          /\ Mutation("add_vertices", <<>>, names # <<>>, r)

AddEdge ==
    \E edge \in EdgeArgs :
      Mutation("add_edge", <<>>, TRUE, add_edge(fw, edge))

AddEdges ==
    \E es \in SeqsUpTo(EdgeArgs, MaxBatch) :
      Mutation("add_edges", <<>>, TRUE, add_edges(fw, es))

DeleteVertex ==
    \E vertex \in Labels :
      Mutation("delete_vertex", <<vertex>>, TRUE, delete_vertex(fw, vertex))

DeleteVertices ==
    \E vs \in SeqsUpTo(Labels, MaxBatch) :
      Mutation("delete_vertices", <<>>, TRUE, delete_vertices(fw, vs))

DeleteEdge ==
    \E edge \in EdgeArgs :
      Mutation("delete_edge", <<>>, TRUE, delete_edge(fw, edge))

SetRealization ==
    \E realization \in NewRealizations :
      LET r == set_realization(fw, realization)
      IN  /\ calls < MaxCalls
          /\ fw' = r.fw
          /\ mapAliased' = (mapAliased \/ r.err = "")
          /\ calls' = calls + 1
          /\ last' = Call("set_realization", <<>>, TRUE, FALSE, Outcome(r))

ChangeVertexCoordinates ==
    \E vertex \in Labels, point \in NewPoints :
      Mutation("change_vertex_coordinates", <<>>, TRUE,
               change_vertex_coordinates(fw, vertex, point))

ChangeVertexCoordinatesList ==
    \E vs \in SeqsUpTo(Labels, MaxBatch),
       points \in SeqsUpTo(NewPoints, MaxBatch) :
      Mutation("change_vertex_coordinates_list", vs, TRUE,
               change_vertex_coordinates_list(fw, vs, points))

(***************************************************************************)
(* The caller, between calls, changes objects it holds: the graph, dict or *)
(* point it handed to the framework, or a value the framework returned.    *)
(* The framework sees the change when it holds that very object.           *)
(***************************************************************************)
\* In-place changes of a python list of coordinates: p[i] = x, p.append(x),
\* p.pop()
ListChanges(p) ==
    {q \in CallerPoints :
        \/ /\ Len(q.c) = Len(p.c)
           /\ Cardinality({i \in 1..Len(p.c) : q.c[i] # p.c[i]}) = 1
        \/ /\ Len(q.c) = Len(p.c) + 1
           /\ \A i \in 1..Len(p.c) : q.c[i] = p.c[i]
        \/ /\ Len(q.c) = Len(p.c) - 1
           /\ \A i \in 1..Len(q.c) : q.c[i] = p.c[i]}

\* In-place changes of a python dict of points: m[k] = p, del m[k]
DictChanges(m) ==
    ({DictSet(m, k, p) : k \in Labels, p \in CallerPoints}
       \cup {DictDel(m, k) : k \in DOMAIN m}) \ {m}

CallerStep(op, aliased, F) ==
    /\ calls < MaxCalls
    /\ fw' = F
    /\ calls' = calls + 1
    /\ last' = Call(op, <<>>, aliased, FALSE, RetNone)
    /\ UNCHANGED mapAliased

\* The caller changes a dict: the one it gave to set_realization, which is
\* self._realization (aliased), or one the constructor read or
\* get_realization returned, which is another object
CallerMutatesMapping ==
    \E aliased \in BOOLEAN :
      /\ aliased => mapAliased
      /\ \E m \in IF aliased THEN DictChanges(fw.real) ELSE {fw.real} :
           CallerStep("caller_mutates_mapping", aliased,
                      [fw EXCEPT !.real = m])

\* The caller changes a list of coordinates: one the framework stored as it
\* came (aliased), or one it copied with Matrix(point)
CallerMutatesPoint ==
    \E aliased \in BOOLEAN :
      \E F \in IF aliased
               THEN {[fw EXCEPT !.real[k] = q] :
                       <<k, q>> \in {x \in (DOMAIN fw.real) \X CallerPoints :
                                       /\ ~fw.real[x[1]].mat
                                       /\ x[2] \in ListChanges(fw.real[x[1]])}}
               ELSE {fw} :
        CallerStep("caller_mutates_point", aliased, F)

\* The caller changes a graph: the one the constructor copied, or one
\* underlying_graph returned; either is an object of its own
CallerMutatesGraph ==
    CallerStep("caller_mutates_graph", FALSE, fw)

(***************************************************************************)
(* Queries.  A query is taken from a state a constructor or a              *)
(* state-changing call left.                                               *)
(***************************************************************************)
Query(op, arg, given, ordered, self, res) ==
    /\ last.op \notin Queries
    /\ fw' = self
    /\ last' = Call(op, arg, given, ordered, res)
    /\ UNCHANGED <<mapAliased, calls>>

\* get_realization() returns deepcopy(self._realization)
GetRealization ==
    Query("get_realization", <<>>, FALSE, FALSE, fw, RetObject)

\* underlying_graph() returns deepcopy(self._graph)
UnderlyingGraph ==
    Query("underlying_graph", <<>>, FALSE, FALSE, fw, RetObject)

\* rigidity_matrix(edges_ordered=ordered)
RigidityMatrix ==
    \E ordered \in BOOLEAN :
      Query("rigidity_matrix", <<>>, FALSE, ordered, fw,
            rigidity_matrix(fw, FALSE, <<>>, ordered))

\* rigidity_matrix(vertex_order=order, edges_ordered=ordered)
RigidityMatrixInOrder ==
    \E order \in VertexOrders, ordered \in BOOLEAN :
      Query("rigidity_matrix", order, TRUE, ordered, fw,
            rigidity_matrix(fw, TRUE, order, ordered))

RigidityMatrixRank ==
    Query("rigidity_matrix_rank", <<>>, FALSE, FALSE, fw,
          rigidity_matrix_rank(fw))

IsInfinitesimallyRigid ==
    Query("is_infinitesimally_rigid", <<>>, FALSE, FALSE, fw,
          is_infinitesimally_rigid(fw))

IsMinimallyInfinitesimallyRigid ==
    LET r == is_minimally_infinitesimally_rigid(fw)
    IN  Query("is_minimally_infinitesimally_rigid", <<>>, FALSE, FALSE,
              r.self, r.res)

IsRedundantlyRigid ==
    LET r == is_redundantly_rigid(fw)
    IN  Query("is_redundantly_rigid", <<>>, FALSE, FALSE, r.self, r.res)

\* The keys that may come first in the realization dict
FirstKeys(F) == IF DOMAIN F.real = {} THEN {0} ELSE DOMAIN F.real

TrivialInfinitesimalFlexes ==
    \E first \in FirstKeys(fw) :
      Query("trivial_infinitesimal_flexes", <<>>, FALSE, FALSE, fw,
            trivial_infinitesimal_flexes(fw, first))

\* infinitesimal_flexes(include_trivial); nontrivial_infinitesimal_flexes()
\* is the call with include_trivial=False
InfinitesimalFlexes ==
    \E include_trivial \in BOOLEAN, first \in FirstKeys(fw) :
      Query("infinitesimal_flexes", <<>>, include_trivial, FALSE, fw,
            infinitesimal_flexes(fw, include_trivial, first))

NextQueries ==
    \/ GetRealization
    \/ UnderlyingGraph
    \/ RigidityMatrix
    \/ RigidityMatrixInOrder
    \/ RigidityMatrixRank
    \/ IsInfinitesimallyRigid
    \/ IsMinimallyInfinitesimallyRigid
    \/ IsRedundantlyRigid
    \/ TrivialInfinitesimalFlexes
    \/ InfinitesimalFlexes

Next ==
    \/ AddVertex
    \/ AddVertices
    \/ AddEdge
    \/ AddEdges
    \/ DeleteVertex
    \/ DeleteVertices
    \/ DeleteEdge
    \/ SetRealization
    \/ ChangeVertexCoordinates
    \/ ChangeVertexCoordinatesList
    \/ CallerMutatesMapping
    \/ CallerMutatesPoint
    \/ CallerMutatesGraph
    \/ GetRealization
    \/ UnderlyingGraph
    \/ RigidityMatrix
    \/ RigidityMatrixRank
    \/ IsInfinitesimallyRigid
    \/ IsMinimallyInfinitesimallyRigid
    \/ IsRedundantlyRigid
    \/ TrivialInfinitesimalFlexes
    \/ InfinitesimalFlexes

\* The framework as an object that is constructed, changed and queried
Spec == Init /\ [][Next]_vars

\* The queries on every framework the constructor builds
SpecQueries == InitQueries /\ [][NextQueries]_vars

(***************************************************************************)
(* The claims.                                                             *)
(***************************************************************************)
FrameworkMutations ==
    {"add_vertex", "add_vertices", "add_edge", "add_edges", "delete_vertex",
     "delete_vertices", "delete_edge", "set_realization",
     "change_vertex_coordinates", "change_vertex_coordinates_list"}

BatchOperations ==
    {"change_vertex_coordinates_list", "add_vertices", "add_edges",
     "delete_vertices"}

CallerChanges ==
    {"caller_mutates_mapping", "caller_mutates_point", "caller_mutates_graph"}

\* The framework F with the edge e (a set of two vertices) deleted
WithoutEdge(F, e) == [F EXCEPT !.edges = @ \ {e}]

\* F is infinitesimally rigid / flexible, as is_infinitesimally_rigid answers
Rigid(F)    == is_infinitesimally_rigid(F).val = "True"
Flexible(F) == is_infinitesimally_rigid(F).val = "False"

\* C1: is_redundantly_rigid() returns a boolean, true exactly when every
\* framework obtained by deleting one edge is infinitesimally rigid; with an
\* edge in the framework the call still ends with true or false, never with
\* an error.
C1_RedundantlyRigidAnswers ==
    last.op = "is_redundantly_rigid" =>
      /\ last.res.err = ""
      /\ last.res.val \in {"True", "False"}
      /\ (last.res.val = "True") <=>
           (\A e \in fw.edges : Rigid(WithoutEdge(fw, e)))

\* The smallest non-negative integer that is no element of V
SmallestUnused(V) == Min((0..Cardinality(V)) \ V)

\* The smallest integer from |V| upwards that is no element of V
SmallestUnusedFromCount(V) ==
    Min((Cardinality(V)..(2 * Cardinality(V))) \ V)

\* A step in which add_vertex, called without a name, returned
UnnamedAddVertexStep ==
    /\ last'.op = "add_vertex"
    /\ ~last'.given
    /\ last'.res.err = ""

\* C2 as stated: add_vertex(point) without a name adds the smallest
\* non-negative integer that is no vertex yet (0 when the vertices are
\* {1, 2}).
C2_UnnamedVertexIsSmallestUnused ==
    [][UnnamedAddVertexStep =>
         vertices(fw') = vertices(fw) \cup {SmallestUnused(vertices(fw))}]_vars

\* C2 as the code has it: add_vertex(point) without a name adds the smallest
\* integer not below the number of vertices that is no vertex yet, and adds
\* nothing else.
C2_UnnamedVertexIsFirstFreeFromCount ==
    [][UnnamedAddVertexStep =>
         /\ vertices(fw') =
              vertices(fw) \cup {SmallestUnusedFromCount(vertices(fw))}
         /\ SmallestUnusedFromCount(vertices(fw)) \notin vertices(fw)]_vars

\* An unnamed add_vertex has just added a vertex although a smaller
\* non-negative integer is still unused.
C2_Witness ==
    /\ last.op = "add_vertex"
    /\ ~last.given
    /\ last.res.err = ""
    /\ \E k \in 0..MaxLabel :
         k \notin vertices(fw) /\ k < fw.nodes[Len(fw.nodes)]

\* Every vector stored in the realization has length dim
LengthsAreDim(F) == \A k \in DOMAIN F.real : len(F.real[k]) = F.dim

\* C3: after construction and after every mutation of the framework, every
\* coordinate vector stored in the realization has length dim(); a mutation
\* given a vector of another length fails and stores nothing.
C3_MutationsKeepVectorLength ==
    /\ LengthsAreDim(fw)
    /\ [][(last'.op \in FrameworkMutations /\ LengthsAreDim(fw))
            => LengthsAreDim(fw')]_vars

\* Every vertex of the graph has an entry in the realization
HasEntries(F) == vertices(F) \subseteq DOMAIN F.real

\* C4: after construction and after every mutation of the framework, every
\* vertex of the graph has a realization entry: no mutation, add_edge and
\* set_realization included, leaves a graph vertex without one.
C4_VerticesHaveEntries ==
    /\ HasEntries(fw)
    /\ [][(last'.op \in FrameworkMutations /\ HasEntries(fw))
            => HasEntries(fw')]_vars

\* set_realization has just returned on a framework with an edge, and the
\* dict it took holds an entry for every vertex and one more.
C4_Witness ==
    /\ last.op = "set_realization"
    /\ last.res.err = ""
    /\ fw.edges # {}
    /\ HasEntries(fw)
    /\ DOMAIN fw.real # vertices(fw)

\* The list names some vertex more than once
HasRepetition(vs) == Cardinality(Range(vs)) < Len(vs)

\* C5: the batch coordinate update fails whenever its vertex list names a
\* vertex more than once, and then changes no coordinate.
C5_RepeatedVertexRefused ==
    [][(last'.op = "change_vertex_coordinates_list"
          /\ HasRepetition(last'.arg))
         => (last'.res.err # "" /\ fw' = fw)]_vars

\* C6: a batch operation that fails on an element leaves the graph and the
\* realization as they were before the call, no earlier element applied.
C6_FailedBatchChangesNothing ==
    [][(last'.op \in BatchOperations /\ last'.res.err # "") => fw' = fw]_vars

\* C7: whatever the caller does to a graph, dict or point it handed to the
\* framework, or to a value get_realization or underlying_graph returned,
\* the framework's graph and realization stay as they are.
C7_CallerChangesLeaveFramework ==
    [][last'.op \in CallerChanges => fw' = fw]_vars

\* rigidity_matrix has just returned a matrix
MatrixReturned == last.op = "rigidity_matrix" /\ last.res.val = "Matrix"

\* C8: for every framework, one without edges included, and every vertex
\* order rigidity_matrix accepts, the matrix returned has |E| rows and
\* dim * |V| columns.
C8_MatrixShape ==
    MatrixReturned =>
      /\ RowCount(last.res.m) = Cardinality(fw.edges)
      /\ ColCount(last.res.m) = fw.dim * Cardinality(vertices(fw))

\* The vertex order and the edge order of the call recorded in last
UsedVertexOrder == IF last.given THEN last.arg ELSE sorted(vertices(fw))
UsedEdgeOrder ==
    IF last.ordered THEN sortedPairs({Orient(fw, e) : e \in fw.edges})
    ELSE edges(fw)

\* Coordinate i of the point of vertex v
Coordinate(v, i) == fw.real[v].c[i]

\* C9: in the matrix rigidity_matrix returns, the row of the edge (u, v) has
\* one block of dim columns per vertex of the order in use: p_u - p_v where
\* the vertex is u, p_v - p_u where it is v, zero elsewhere, p being the
\* realization.
C9_RowsHoldDifferences ==
    MatrixReturned =>
      /\ Len(last.res.m) = Len(UsedEdgeOrder)
      /\ \A k \in 1..Len(last.res.m) :
           LET row == last.res.m[k]
               u   == UsedEdgeOrder[k][1]
               v   == UsedEdgeOrder[k][2]
           IN  /\ Len(row) = fw.dim * Len(UsedVertexOrder)
               /\ \A j \in 1..Len(UsedVertexOrder), i \in 1..fw.dim :
                    row[(j - 1) * fw.dim + i] =
                      IF UsedVertexOrder[j] = u
                      THEN Coordinate(u, i) - Coordinate(v, i)
                      ELSE IF UsedVertexOrder[j] = v
                      THEN Coordinate(v, i) - Coordinate(u, i)
                      ELSE 0

\* The edges whose deletion leaves the framework rigid, as positions in the
\* order the edges are tried
RigidTrials ==
    {k \in 1..Len(edges(fw)) :
       Rigid(WithoutEdge(fw, {edges(fw)[k][1], edges(fw)[k][2]}))}

\* C10: is_minimally_infinitesimally_rigid() returns true exactly when the
\* framework is infinitesimally rigid and deleting any one edge leaves it
\* flexible; it returns false at the first edge whose deletion leaves it
\* rigid, without trying the edges after it.
C10_MinimallyRigidAnswers ==
    (last.op = "is_minimally_infinitesimally_rigid" /\ last.res.err = "") =>
      /\ last.res.val \in {"True", "False"}
      /\ (last.res.val = "True") <=>
           (/\ Rigid(fw)
            /\ \A e \in fw.edges : Flexible(WithoutEdge(fw, e)))
      /\ (Rigid(fw) /\ RigidTrials # {}) =>
           (last.res.val = "False" /\ last.res.trials = Min(RigidTrials))

\* The call has returned false at an edge that is not the last one tried:
\* the framework is rigid and stays rigid without that edge.
C10_Witness ==
    /\ last.op = "is_minimally_infinitesimally_rigid"
    /\ last.res.val = "False"
    /\ Rigid(fw)
    /\ last.res.trials >= 1
    /\ last.res.trials < Cardinality(fw.edges)

\* A step in which delete_vertex(v) was called on a framework that has the
\* vertex v and a realization entry for it
DeleteVertexStep(v) ==
    /\ last'.op = "delete_vertex"
    /\ last'.arg = <<v>>
    /\ v \in vertices(fw)
    /\ v \in DOMAIN fw.real

\* C11: delete_vertex(v) on a framework containing v returns and removes
\* exactly v from the vertices, exactly v's entry from the realization and
\* exactly the edges at v; the other vertices (and their order), entries and
\* edges and the dimension stay, so that neither the vertex order nor the
\* edges of a later rigidity matrix mention v.
C11_DeleteVertexRemovesExactlyV ==
    [][\A v \in Labels : DeleteVertexStep(v) =>
         /\ last'.res.err = ""
         /\ vertices(fw') = vertices(fw) \ {v}
         /\ \A a, b \in vertices(fw') :
              Pos(fw', a) < Pos(fw', b) <=> Pos(fw, a) < Pos(fw, b)
         /\ DOMAIN fw'.real = DOMAIN fw.real \ {v}
         /\ \A k \in DOMAIN fw'.real : fw'.real[k] = fw.real[k]
         /\ fw'.edges = {e \in fw.edges : v \notin e}
         /\ fw'.dim = fw.dim
         /\ v \notin Range(sorted(vertices(fw')))
         /\ \A k \in 1..Len(edges(fw')) :
              v # edges(fw')[k][1] /\ v # edges(fw')[k][2]]_vars

\* delete_vertex has just returned, the vertex is gone from graph and
\* realization, and an edge between two other vertices is still there.
C11_Witness ==
    /\ last.op = "delete_vertex"
    /\ last.res.err = ""
    /\ last.arg[1] \notin vertices(fw) \cup DOMAIN fw.real
    /\ fw.edges # {}

\* A call that builds the trivial flexes was the last call
TrivialFlexesBuilt ==
    \/ last.op = "trivial_infinitesimal_flexes"
    \/ last.op = "infinitesimal_flexes" /\ ~last.given

\* C12: whatever the vertex labels, trivial_infinitesimal_flexes() and
\* infinitesimal_flexes(include_trivial=False) return a result, and the
\* auxiliary framework they build is the complete graph on the framework's
\* own vertices with the same points and dimension.
C12_TrivialFlexesOnOwnVertices ==
    TrivialFlexesBuilt =>
      /\ last.res.err = ""
      /\ \A first \in FirstKeys(fw) :
           LET F == AuxiliaryFramework(fw, first)
           IN  /\ F.err = ""
               /\ vertices(F.fw) = vertices(fw)
               /\ F.fw.edges = PairsOf(vertices(fw))
               /\ \A v \in vertices(fw) : F.fw.real[v].c = fw.real[v].c
               /\ F.fw.dim = fw.dim

\* The queries of the rigidity analysis
RigidityQueries ==
    {"rigidity_matrix", "rigidity_matrix_rank", "infinitesimal_flexes",
     "is_infinitesimally_rigid", "is_minimally_infinitesimally_rigid",
     "is_redundantly_rigid"}

\* C13: a query (rigidity_matrix, rigidity_matrix_rank, infinitesimal_flexes,
\* is_infinitesimally_rigid, is_minimally_infinitesimally_rigid,
\* is_redundantly_rigid) leaves the graph, the realization and the dimension
\* as they were, whether it returns or raises: the edge-deletion trials work
\* on copies, the framework keeps all its edges, and rigidity_matrix() with
\* the same orderings gives the same matrix after the query as before it.
C13_QueriesLeaveFramework ==
    [][last'.op \in RigidityQueries =>
         /\ fw'.nodes = fw.nodes
         /\ fw'.edges = fw.edges
         /\ fw'.real = fw.real
         /\ fw'.dim = fw.dim
         /\ mapAliased' = mapAliased
         /\ \A ordered \in BOOLEAN :
              rigidity_matrix(fw', FALSE, <<>>, ordered)
                = rigidity_matrix(fw, FALSE, <<>>, ordered)]_vars

\* Edge-deletion trials were made and the framework still has several edges
C13_Witness ==
    /\ last.op = "is_minimally_infinitesimally_rigid"
    /\ last.res.err = ""
    /\ last.res.trials >= 2
    /\ Cardinality(fw.edges) >= 2

==========================================================================
